---- MODULE Spec2Model ----
(***************************************************************************)
(* Word quiz document -> Excel converter (bot_st1.0.2.py).                  *)
(*                                                                         *)
(* Text is a sequence of characters, each character a one-element string.  *)
(* The CJK characters of the program's literals are written as their       *)
(* pinyin syllable ("dan" "xuan" "ti" is the three-character label of a     *)
(* single-choice section); every such token stands for ONE character.      *)
(***************************************************************************)
EXTENDS Integers, Sequences, FiniteSets, TLC

VARIABLES
    doc,               \* doc.paragraphs: the texts of the uploaded document
    pc,                \* position of main()
    i,                 \* index of the paragraph the for loop of the segmenter reads next
    questions,         \* the list `questions` (main's list; write_to_excel gets the same objects)
    current_question,  \* the dict `current_question`; <<>> is the empty dict {}
    question_type,     \* the ambient `question_type` of the segmenter
    save_method,       \* the st.radio selection
    option_letters,    \* write_to_excel: option_letters
    headers,           \* write_to_excel: headers
    ws,                \* write_to_excel: the worksheet, a set of written cells
    row,               \* index in processed_questions of the record the row loop writes next
    widths,            \* ws.column_dimensions[...].width
    saved,             \* TRUE once wb.save(output) has run
    ui,                \* what main() has shown: a sequence of widget / message kinds
    exc,               \* the exception raised inside main()'s try block, "none" if none
    probe,             \* type inferencer in isolation: the question handed to it
    probe_type         \* type inferencer in isolation: the returned type ("" before the call)

vars == <<doc, pc, i, questions, current_question, question_type, save_method,
          option_letters, headers, ws, row, widths, saved, ui, exc, probe, probe_type>>

-----------------------------------------------------------------------------
(* Bounds of the model *)

MaxDocLines == 3

MaxAnswerLen == 3

-----------------------------------------------------------------------------
(* Characters and the string primitives the program uses *)

Min(S) == CHOOSE x \in S : \A y \in S : x <= y

Max(S) == CHOOSE x \in S : \A y \in S : x >= y

\* str.strip() with no argument and \s of the regular expressions: whitespace
IsSpace(c) == c \in {" ", "\t", "\n"}

\* \d of the regular expressions
IsDigit(c) == c \in {"0", "1", "2", "3", "4", "5", "6", "7", "8", "9"}

\* text.strip(): leading and trailing whitespace removed
Strip(s) ==
    LET keep == {k \in 1..Len(s) : ~IsSpace(s[k])}
    IN  IF keep = {} THEN <<>> ELSE SubSeq(s, Min(keep), Max(keep))

\* text.strip('#'): leading and trailing '#' removed
StripHash(s) ==
    LET keep == {k \in 1..Len(s) : s[k] # "#"}
    IN  IF keep = {} THEN <<>> ELSE SubSeq(s, Min(keep), Max(keep))

LowerLetters == <<"a", "b", "c", "d", "e", "f", "g", "h", "i", "j", "k", "l", "m",
                  "n", "o", "p", "q", "r", "s", "t", "u", "v", "w", "x", "y", "z">>

UpperLetters == <<"A", "B", "C", "D", "E", "F", "G", "H", "I", "J", "K", "L", "M",
                  "N", "O", "P", "Q", "R", "S", "T", "U", "V", "W", "X", "Y", "Z">>

\* str.upper(): a-z mapped to A-Z, every other character of the model unchanged
Upper(s) ==
    [k \in 1..Len(s) |->
        IF \E n \in 1..26 : LowerLetters[n] = s[k]
        THEN UpperLetters[CHOOSE n \in 1..26 : LowerLetters[n] = s[k]]
        ELSE s[k]]

\* chr(65 + n), as a one-character text
Chr65(n) == <<UpperLetters[n + 1]>>

\* text.startswith('##') and text.endswith('##')
IsSectionMarker(text) ==
    /\ Len(text) >= 2
    /\ text[1] = "#" /\ text[2] = "#"
    /\ text[Len(text) - 1] = "#" /\ text[Len(text)] = "#"

\* length of the match of ^[#]?\d+\.?\s at the start of text, 0 when it does not match
QuestionPrefixLen(text) ==
    LET n == Len(text)
        h == IF n >= 1 /\ text[1] = "#" THEN 1 ELSE 0
        d == Max({k \in 0..(n - h) : \A j \in 1..k : IsDigit(text[h + j])})
        e == h + d
    IN  IF d = 0 THEN 0
        ELSE IF e + 2 <= n /\ text[e + 1] = "." /\ IsSpace(text[e + 2]) THEN e + 2
        ELSE IF e + 1 <= n /\ IsSpace(text[e + 1]) THEN e + 1
        ELSE 0

\* length of the match of ^[A-D]\.?\s at the start of text, 0 when it does not match
OptionPrefixLen(text) ==
    LET n == Len(text)
    IN  IF n = 0 \/ text[1] \notin {"A", "B", "C", "D"} THEN 0
        ELSE IF n >= 3 /\ text[2] = "." /\ IsSpace(text[3]) THEN 3
        ELSE IF n >= 2 /\ IsSpace(text[2]) THEN 2
        ELSE 0

\* the matches of \{.+?\} in s that start at or after position from:
\* '{', one or more characters other than a newline, '}'
BraceMatches(s, from) ==
    {m \in (from..Len(s)) \X (from..Len(s)) :
        /\ m[2] >= m[1] + 2
        /\ s[m[1]] = "{"
        /\ s[m[2]] = "}"
        /\ \A k \in (m[1] + 1)..(m[2] - 1) : s[k] # "\n"}

\* re.search(r'\{(.+?)\}', s) continued from a position: the leftmost match, and
\* of those the shortest (the quantifier is lazy); <<0, 0>> when there is none
BraceSearch(s, from) ==
    LET ms == BraceMatches(s, from)
    IN  IF ms = {} THEN <<0, 0>>
        ELSE LET a == Min({m[1] : m \in ms})
             IN  <<a, Min({m[2] : m \in {x \in ms : x[1] = a}})>>

\* answer_match.group(1)
BraceGroup(s) ==
    LET m == BraceSearch(s, 1) IN SubSeq(s, m[1] + 1, m[2] - 1)

RECURSIVE BraceSubFrom(_, _)
\* re.sub(r'\{.+?\}', '', s): every non-overlapping match removed, left to right
BraceSubFrom(s, from) ==
    LET m == BraceSearch(s, from)
    IN  IF m = <<0, 0>> THEN SubSeq(s, from, Len(s))
        ELSE SubSeq(s, from, m[1] - 1) \o BraceSubFrom(s, m[2] + 1)

BraceSub(s) == BraceSubFrom(s, 1)

-----------------------------------------------------------------------------
(* Literals of the program *)

SingleChoice == <<"dan", "xuan", "ti">>

MultiChoice == <<"duo", "xuan", "ti">>

TrueFalse == <<"pan", "duan", "ti">>

LabelCorrect == <<"zheng", "que">>

LabelWrong == <<"cuo", "wu">>

HeaderType == <<"ti", "xing">>

HeaderStem == <<"ti", "mu">>

HeaderAnswer == <<"da", "an">>

\* ['zhengque', 'cuowu', 'dui', 'cuo', 'T', 'F']
BooleanTokens == {LabelCorrect, LabelWrong, <<"dui">>, <<"cuo">>, <<"T">>, <<"F">>}

\* 'ABCDEFGHIJK'
OptionAlphabet == {"A", "B", "C", "D", "E", "F", "G", "H", "I", "J", "K"}

EmptyDict == <<>>

-----------------------------------------------------------------------------
(* determine_question_type *)

\* Fault variant: the letter rules tried before the boolean tokens
determine_question_type_LettersFirst(question) ==
    LET answer == Upper(Strip(question.answer))
    IN  IF Len(answer) > 1 /\ \A k \in 1..Len(answer) : answer[k] \in OptionAlphabet
        THEN MultiChoice
        ELSE IF Len(answer) = 1 /\ answer[1] \in OptionAlphabet THEN SingleChoice
        ELSE IF answer \in BooleanTokens THEN TrueFalse
        ELSE SingleChoice

determine_question_type(question) ==
    LET answer == Upper(Strip(question.answer))
    IN  IF answer \in BooleanTokens THEN TrueFalse
        ELSE IF Len(answer) > 1 /\ \A k \in 1..Len(answer) : answer[k] \in OptionAlphabet
             THEN MultiChoice
        ELSE IF Len(answer) = 1 /\ answer[1] \in OptionAlphabet THEN SingleChoice
        ELSE SingleChoice

-----------------------------------------------------------------------------
(* extract_questions_from_docx *)

\* Fault variant: the new question does not take the ambient type
NewQuestion_Untyped(qtype, text) ==
    LET question_text == Strip(SubSeq(text, QuestionPrefixLen(text) + 1, Len(text)))
        answer_match == BraceSearch(question_text, 1) # <<0, 0>>
    IN  [type     |-> <<>>,
         question |-> Strip(IF answer_match THEN BraceSub(question_text) ELSE question_text),
         options  |-> <<>>,
         answer   |-> IF answer_match THEN BraceGroup(question_text) ELSE <<>>]

\* the dict opened on a question-start line, after the stem and the answer are set
NewQuestion(qtype, text) ==
    LET question_text == Strip(SubSeq(text, QuestionPrefixLen(text) + 1, Len(text)))
        answer_match == BraceSearch(question_text, 1) # <<0, 0>>
    IN  [type     |-> qtype,
         question |-> Strip(IF answer_match THEN BraceSub(question_text) ELSE question_text),
         options  |-> <<>>,
         answer   |-> IF answer_match THEN BraceGroup(question_text) ELSE <<>>]

\* the text an option line appends to the open question
OptionText(text) == Strip(SubSeq(text, OptionPrefixLen(text) + 1, Len(text)))

\* text.strip('#').strip() of a section-type marker
MarkerLabel(text) == Strip(StripHash(text))

\* `if current_question:` -- a dict is true when it has a key
IsOpen(q) == DOMAIN q # {}

\* one iteration of `for para in doc.paragraphs`
ProcessParagraph ==
    /\ pc = "extract"
    /\ i <= Len(doc)
    /\ LET text == Strip(doc[i])
       IN  IF text = <<>> THEN
               /\ i' = i + 1
               /\ UNCHANGED <<pc, questions, current_question, question_type, exc>>
           ELSE IF IsSectionMarker(text) THEN
               /\ question_type' = MarkerLabel(text)
               /\ i' = i + 1
               /\ UNCHANGED <<pc, questions, current_question, exc>>
           ELSE IF QuestionPrefixLen(text) > 0 THEN
               /\ questions' = IF IsOpen(current_question)
                               THEN Append(questions, current_question)
                               ELSE questions
               /\ current_question' = NewQuestion(question_type, text)
               /\ i' = i + 1
               /\ UNCHANGED <<pc, question_type, exc>>
           ELSE IF OptionPrefixLen(text) > 0 THEN
               IF "options" \in DOMAIN current_question THEN
                   /\ current_question' =
                          [current_question EXCEPT
                              !.options = Append(@, OptionText(text))]
                   /\ i' = i + 1
                   /\ UNCHANGED <<pc, questions, question_type, exc>>
               ELSE
                   \* current_question['options'] on the empty dict: KeyError
                   /\ exc' = "KeyError"
                   /\ pc' = "except"
                   /\ UNCHANGED <<i, questions, current_question, question_type>>
           ELSE
               /\ i' = i + 1
               /\ UNCHANGED <<pc, questions, current_question, question_type, exc>>
    /\ UNCHANGED <<doc, save_method, option_letters, headers, ws, row, widths, saved,
                   ui, probe, probe_type>>

\* after the loop: the last question is saved and the list returned to main()
ReturnQuestions ==
    /\ pc = "extract"
    /\ i > Len(doc)
    /\ questions' = IF IsOpen(current_question)
                    THEN Append(questions, current_question)
                    ELSE questions
    /\ pc' = "extracted"
    /\ UNCHANGED <<doc, i, current_question, question_type, save_method, option_letters,
                   headers, ws, row, widths, saved, ui, exc, probe, probe_type>>

-----------------------------------------------------------------------------
(* write_to_excel *)

IsChoice(t) == t \in {SingleChoice, MultiChoice}

\* get_option_letters: chr(65 + i) for every option position of every question, sorted
get_option_letters(qs) ==
    LET n == Max({0} \cup {Len(qs[k].options) : k \in 1..Len(qs)})
    IN  [k \in 1..n |-> Chr65(k - 1)]

get_headers(qtype, letters) ==
    LET common_headers == <<HeaderType, HeaderStem>>
    IN  IF IsChoice(qtype) THEN common_headers \o letters \o <<HeaderAnswer>>
        ELSE IF qtype = TrueFalse THEN
            common_headers \o <<LabelCorrect, LabelWrong, HeaderAnswer>>
        ELSE common_headers \o <<HeaderAnswer>>

\* Fault variant: the type is inferred for every question, tagged or not
InferTypes_Overwrite(qs) ==
    [k \in 1..Len(qs) |-> [qs[k] EXCEPT !.type = determine_question_type(qs[k])]]

\* the loop that fills in the type of the questions that have none; the dicts of
\* the caller's list are assigned to in place
InferTypes(qs) ==
    [k \in 1..Len(qs) |->
        IF qs[k].type = <<>>
        THEN [qs[k] EXCEPT !.type = determine_question_type(qs[k])]
        ELSE qs[k]]

Cell(r, c, v) == [row |-> r, column |-> c, value |-> v]

\* ws.cell(row=r, column=c, value=v) for each cell of a sequence, in order
RECURSIVE SetCells(_, _)
SetCells(sheet, cells) ==
    IF cells = <<>> THEN sheet
    ELSE SetCells({x \in sheet : ~(x.row = Head(cells).row /\ x.column = Head(cells).column)}
                      \cup {Head(cells)},
                  Tail(cells))

HasHeader(hdrs, h) == \E p \in 1..Len(hdrs) : hdrs[p] = h

\* headers.index(h) + 1
HeaderColumn(hdrs, h) == Min({p \in 1..Len(hdrs) : hdrs[p] = h})

\* the options of q that are written before headers.index raises ValueError (all
\* of them when it does not)
WritableOptions(q, hdrs) ==
    Max({n \in 0..Len(q.options) : \A k \in 1..n : HasHeader(hdrs, Chr65(k - 1))})

\* headers.index(chr(65 + i)) raises ValueError while the row of q is written
RowRaises(q, hdrs) == IsChoice(q.type) /\ WritableOptions(q, hdrs) < Len(q.options)

\* the cells the body of the row loop writes for q in sheet row r, in order
RowCells(q, r, hdrs) ==
    <<Cell(r, 1, q.type), Cell(r, 2, q.question)>> \o
    (IF IsChoice(q.type) THEN
         [k \in 1..WritableOptions(q, hdrs) |->
             Cell(r, HeaderColumn(hdrs, Chr65(k - 1)), q.options[k])] \o
         (IF RowRaises(q, hdrs) THEN <<>> ELSE <<Cell(r, Len(hdrs), q.answer)>>)
     ELSE IF q.type = TrueFalse THEN
         <<Cell(r, 3, LabelCorrect), Cell(r, 4, LabelWrong), Cell(r, 5, q.answer)>>
     ELSE
         <<Cell(r, 3, q.answer)>>)

\* the column widths: longest non-empty value of the column plus 2
ColumnWidths(sheet) ==
    LET ncol == Max({0} \cup {x.column : x \in sheet})
    IN  [c \in 1..ncol |->
            Max({0} \cup {Len(x.value) : x \in {y \in sheet : y.column = c}}) + 2]

\* from the call to the end of the header row
WriteHeader ==
    /\ pc = "write"
    /\ option_letters' = get_option_letters(questions)
    /\ questions' = InferTypes(questions)
    /\ headers' = get_headers(questions'[1].type, option_letters')
    /\ ws' = SetCells({}, [c \in 1..Len(headers') |-> Cell(1, c, headers'[c])])
    /\ row' = 1
    /\ pc' = "rows"
    /\ UNCHANGED <<doc, i, current_question, question_type, save_method, widths, saved,
                   ui, exc, probe, probe_type>>

\* one iteration of `for q in processed_questions`
WriteRow ==
    /\ pc = "rows"
    /\ row <= Len(questions)
    /\ ws' = SetCells(ws, RowCells(questions[row], row + 1, headers))
    /\ IF RowRaises(questions[row], headers)
       THEN /\ exc' = "ValueError"
            /\ pc' = "except"
            /\ UNCHANGED row
       ELSE /\ row' = row + 1
            /\ UNCHANGED <<pc, exc>>
    /\ UNCHANGED <<doc, i, questions, current_question, question_type, save_method,
                   option_letters, headers, widths, saved, ui, probe, probe_type>>

\* the column widths and wb.save(output)
SaveWorkbook ==
    /\ pc = "rows"
    /\ row > Len(questions)
    /\ widths' = ColumnWidths(ws)
    /\ saved' = TRUE
    /\ pc' = "written"
    /\ UNCHANGED <<doc, i, questions, current_question, question_type, save_method,
                   option_letters, headers, ws, row, ui, exc, probe, probe_type>>

-----------------------------------------------------------------------------
(* main *)

\* doc = Document(uploaded_file)
ReadDocument ==
    /\ pc = "upload"
    /\ pc' = "extract"
    /\ UNCHANGED <<doc, i, questions, current_question, question_type, save_method,
                   option_letters, headers, ws, row, widths, saved, ui, exc, probe,
                   probe_type>>

\* Document(uploaded_file) raises on a file that is no Word document
DocumentFails ==
    /\ pc = "upload"
    /\ exc' = "DocumentError"
    /\ pc' = "except"
    /\ UNCHANGED <<doc, i, questions, current_question, question_type, save_method,
                   option_letters, headers, ws, row, widths, saved, ui, probe,
                   probe_type>>

\* `if questions:` is false: main() falls through to its end
NoQuestions ==
    /\ pc = "extracted"
    /\ questions = <<>>
    /\ pc' = "done"
    /\ UNCHANGED <<doc, i, questions, current_question, question_type, save_method,
                   option_letters, headers, ws, row, widths, saved, ui, exc, probe,
                   probe_type>>

\* save_method is the direct download: write_to_excel(questions, excel_buffer)
ChooseDownload ==
    /\ pc = "extracted"
    /\ questions # <<>>
    /\ save_method' = "download"
    /\ pc' = "write"
    /\ UNCHANGED <<doc, i, questions, current_question, question_type, option_letters,
                   headers, ws, row, widths, saved, ui, exc, probe, probe_type>>

\* save_method is the save path, a path is given and the button was pressed
ChoosePathSave ==
    /\ pc = "extracted"
    /\ questions # <<>>
    /\ save_method' = "path"
    /\ pc' = "write"
    /\ UNCHANGED <<doc, i, questions, current_question, question_type, option_letters,
                   headers, ws, row, widths, saved, ui, exc, probe, probe_type>>

\* save_method is the save path, and no path is given or the button was not pressed
ChoosePathIdle ==
    /\ pc = "extracted"
    /\ questions # <<>>
    /\ save_method' = "path"
    /\ pc' = "preview"
    /\ UNCHANGED <<doc, i, questions, current_question, question_type, option_letters,
                   headers, ws, row, widths, saved, ui, exc, probe, probe_type>>

\* os.makedirs raises inside the inner try
MakedirsFails ==
    /\ pc = "extracted"
    /\ questions # <<>>
    /\ save_method' = "path"
    /\ exc' = "OSError"
    /\ pc' = "except_save"
    /\ UNCHANGED <<doc, i, questions, current_question, question_type, option_letters,
                   headers, ws, row, widths, saved, ui, probe, probe_type>>

\* after write_to_excel returned: the download button, or st.success
AfterWrite ==
    /\ pc = "written"
    /\ ui' = Append(ui, IF save_method = "download" THEN "download_button" ELSE "success")
    /\ pc' = "preview"
    /\ UNCHANGED <<doc, i, questions, current_question, question_type, save_method,
                   option_letters, headers, ws, row, widths, saved, exc, probe,
                   probe_type>>

\* the except clause that catches: the inner one while the file is saved to a
\* path (the preview follows), the outer one otherwise (main() ends)
HandleException ==
    /\ pc \in {"except", "except_save"}
    /\ IF pc = "except_save" \/ (exc = "ValueError" /\ save_method = "path")
       THEN /\ ui' = Append(ui, "error_save")
            /\ pc' = "preview"
       ELSE /\ ui' = Append(ui, "error_process")
            /\ pc' = "done"
    /\ UNCHANGED <<doc, i, questions, current_question, question_type, save_method,
                   option_letters, headers, ws, row, widths, saved, exc, probe,
                   probe_type>>

\* the preview of the questions
Preview ==
    /\ pc = "preview"
    /\ ui' = Append(ui, "preview")
    /\ pc' = "done"
    /\ UNCHANGED <<doc, i, questions, current_question, question_type, save_method,
                   option_letters, headers, ws, row, widths, saved, exc, probe,
                   probe_type>>

-----------------------------------------------------------------------------
(* The documents and answers of the model *)

Lines ==
    { <<" ">>,
      <<"#", "#", "pan", "duan", "ti", "#", "#">>,
      <<"#", "#", " ", "dan", "xuan", "ti", "#", "#">>,
      <<"#", "#", "tian", "kong", "ti", "#", "#">>,
      <<"1", ".", " ", "p", "{", "T", "}">>,
      <<"#", "2", " ", "q", "{", "B", "}", "{", "C", "}">>,
      <<"3", " ", "r", "{", "a", "c", "}", " ">>,
      <<"A", ".", " ", "x">>,
      <<"B", " ", "y">>,
      <<"E", ".", " ", "z">> }

Docs == UNION {[1..n -> Lines] : n \in 0..MaxDocLines}

AnswerChars == {" ", "A", "K", "L", "b", "T", "F", "t", "dui", "cuo", "wu", "zheng", "que"}

Answers == UNION {[1..n -> AnswerChars] : n \in 0..MaxAnswerLen}

NoProbe == [type |-> <<>>, question |-> <<>>, options |-> <<>>, answer |-> <<>>]

-----------------------------------------------------------------------------
(* main() on an uploaded document *)

Init ==
    /\ doc \in Docs
    /\ pc = "upload"
    /\ i = 1
    /\ questions = <<>>
    /\ current_question = EmptyDict
    /\ question_type = <<>>
    /\ save_method = "none"
    /\ option_letters = <<>>
    /\ headers = <<>>
    /\ ws = {}
    /\ row = 0
    /\ widths = <<>>
    /\ saved = FALSE
    /\ ui = <<>>
    /\ exc = "none"
    /\ probe = NoProbe
    /\ probe_type = <<>>

Next ==
    \/ ReadDocument
    \/ DocumentFails
    \/ ProcessParagraph
    \/ ReturnQuestions
    \/ NoQuestions
    \/ ChooseDownload
    \/ ChoosePathSave
    \/ ChoosePathIdle
    \/ MakedirsFails
    \/ WriteHeader
    \/ WriteRow
    \/ SaveWorkbook
    \/ AfterWrite
    \/ HandleException
    \/ Preview

Spec == Init /\ [][Next]_vars

-----------------------------------------------------------------------------
(* determine_question_type on its own, over every answer of the model *)

InferProbe ==
    /\ pc = "probe"
    /\ probe_type' = determine_question_type(probe)
    /\ pc' = "probed"
    /\ UNCHANGED <<doc, i, questions, current_question, question_type, save_method,
                   option_letters, headers, ws, row, widths, saved, ui, exc, probe>>

InitInfer ==
    /\ probe \in {[NoProbe EXCEPT !.answer = a] : a \in Answers}
    /\ probe_type = <<>>
    /\ pc = "probe"
    /\ doc = <<>>
    /\ i = 1
    /\ questions = <<>>
    /\ current_question = EmptyDict
    /\ question_type = <<>>
    /\ save_method = "none"
    /\ option_letters = <<>>
    /\ headers = <<>>
    /\ ws = {}
    /\ row = 0
    /\ widths = <<>>
    /\ saved = FALSE
    /\ ui = <<>>
    /\ exc = "none"

NextInfer == InferProbe

SpecInfer == InitInfer /\ [][NextInfer]_vars

-----------------------------------------------------------------------------
(* What the segmenter has read, in terms of the document alone *)

\* the rule of the if / elif chain of the loop body that a paragraph falls under
LineKind(para) ==
    LET text == Strip(para)
    IN  IF text = <<>> THEN "blank"
        ELSE IF IsSectionMarker(text) THEN "marker"
        ELSE IF QuestionPrefixLen(text) > 0 THEN "start"
        ELSE IF OptionPrefixLen(text) > 0 THEN "option"
        ELSE "other"

\* the question-start lines among the first n paragraphs
StartLines(n) == {j \in 1..n : LineKind(doc[j]) = "start"}

\* the k-th question-start line among the first n paragraphs
KthStart(k, n) ==
    CHOOSE j \in StartLines(n) : Cardinality({m \in StartLines(n) : m <= j}) = k

\* the label of the last section-type marker before paragraph j, empty if none
AmbientBefore(j) ==
    LET ms == {m \in 1..(j - 1) : LineKind(doc[m]) = "marker"}
    IN  IF ms = {} THEN <<>> ELSE MarkerLabel(Strip(doc[Max(ms)]))

\* the texts of the option lines among paragraphs a+1 .. b, in order
OptionsBetween(a, b) ==
    LET opts == SelectSeq(SubSeq(doc, a + 1, b), LAMBDA l : LineKind(l) = "option")
    IN  [k \in 1..Len(opts) |-> OptionText(Strip(opts[k]))]

\* the records of the segmenter: the closed ones, then the open one
Records ==
    IF pc = "extract" /\ IsOpen(current_question)
    THEN Append(questions, current_question)
    ELSE questions

\* the text of a question-start line after its number prefix
QuestionBody(para) ==
    LET text == Strip(para)
    IN  Strip(SubSeq(text, QuestionPrefixLen(text) + 1, Len(text)))

\* s without its first brace span only
WithoutFirstSpan(s) ==
    LET m == BraceSearch(s, 1)
    IN  IF m = <<0, 0>> THEN s ELSE SubSeq(s, 1, m[1] - 1) \o SubSeq(s, m[2] + 1, Len(s))

\* write_to_excel has chosen its headers and row k of the records is complete
RowWritten(k) == headers # <<>> /\ k \in 1..(row - 1)

IsOptionLetter(h) == Len(h) = 1 /\ \E n \in 1..26 : UpperLetters[n] = h[1]

-----------------------------------------------------------------------------
(* Claims *)

\* C1: every cell write of write_to_excel targets a column between 1 and the
\* number of header columns, whatever the types of the later records.
C1_GridIsRectangular ==
    \A x \in ws : x.column \in 1..Len(headers)

\* C2: when the first record is not a choice type and a later record is a choice
\* type with at least one option, write_to_excel raises no error.
C2_MixedBatchCompletes ==
    ( /\ headers # <<>>
      /\ ~IsChoice(questions[1].type)
      /\ \E k \in 2..Len(questions) :
             IsChoice(questions[k].type) /\ questions[k].options # <<>> )
    => exc # "ValueError"

\* C3: an option line read while no question is open is dropped: no error is
\* raised, no record is created or changed, and the loop goes on to the next line.
C3_StrayOptionDropped ==
    [][ ( /\ pc = "extract"
          /\ i <= Len(doc)
          /\ LineKind(doc[i]) = "option"
          /\ ~IsOpen(current_question) )
        => ( /\ exc' = "none"
             /\ pc' = "extract"
             /\ i' = i + 1
             /\ questions' = questions
             /\ current_question' = current_question ) ]_vars

\* C4: for every document the segmenter ends by returning exactly one record per
\* question-start line, in the order of the start lines (none when there is no
\* start line).
C4_OneRecordPerStartLine ==
    (pc = "extracted" \/ (pc = "except" /\ exc = "KeyError"))
    => /\ pc = "extracted"
       /\ Len(questions) = Cardinality(StartLines(Len(doc)))
       /\ \A k \in 1..Len(questions) :
              LET j == KthStart(k, Len(doc))
              IN  /\ questions[k].type = AmbientBefore(j)
                  /\ questions[k].question =
                         NewQuestion(<<>>, Strip(doc[j])).question

\* C5: determine_question_type returns true-false when the uppercased, trimmed
\* answer is a boolean token (T and F included, before the letter rules), else
\* multi-choice when that answer has two or more characters, all in A..K, else
\* single-choice; the result is one of the three types and never empty.
C5_TypeByRules ==
    pc = "probed" =>
        LET a == Upper(Strip(probe.answer))
        IN  /\ probe_type \in {SingleChoice, MultiChoice, TrueFalse}
            /\ probe_type =
                   IF a \in {<<"zheng", "que">>, <<"cuo", "wu">>, <<"dui">>, <<"cuo">>,
                             <<"T">>, <<"F">>}
                   THEN TrueFalse
                   ELSE IF Len(a) >= 2 /\ \A k \in 1..Len(a) : a[k] \in OptionAlphabet
                   THEN MultiChoice
                   ELSE SingleChoice
            /\ (probe.answer = <<"F">> => probe_type = TrueFalse)
            /\ (probe.answer = <<" ", "t">> => probe_type = TrueFalse)
            /\ (probe.answer = <<"A", "K">> => probe_type = MultiChoice)
            /\ (probe.answer = <<"A", "L">> => probe_type = SingleChoice)
            /\ (probe.answer = <<"K">> => probe_type = SingleChoice)
            /\ (probe.answer = <<>> => probe_type = SingleChoice)

\* C5 witness: the letter F alone, which is also a letter of A..K, was classified.
C5_Witness ==
    pc = "probed" /\ probe.answer = <<"F">> /\ probe_type = TrueFalse

\* C6: the answer of a record is the inner text of the first brace span of its
\* question-start line, and only that first span is removed from the stem.
C6_OnlyFirstSpanRemoved ==
    pc \in {"extract", "extracted"} =>
        \A k \in 1..Len(Records) :
            LET body == QuestionBody(doc[KthStart(k, i - 1)])
            IN  /\ Records[k].answer =
                       (IF BraceSearch(body, 1) = <<0, 0>> THEN <<>> ELSE BraceGroup(body))
                /\ Records[k].question = Strip(WithoutFirstSpan(body))

\* C7: when the segmenter returns no record, main reports it to the user, and no
\* grid is written.
C7_NoQuestionsReported ==
    (pc = "done" /\ exc = "none" /\ questions = <<>>)
    => (ui # <<>> /\ ~saved /\ ws = {})

\* C8: once the segmenter has returned, no field of any record of the returned
\* list changes.
C8_RecordsReadOnly ==
    [][pc \notin {"upload", "extract"} => questions' = questions]_vars

\* C8 as amended: once the segmenter has returned, the list keeps its length and
\* every record keeps its stem, options and answer; a non-empty type is never
\* changed, and an empty type changes only to one of the three inferred types.
C8_OnlyEmptyTypeFilled ==
    [][pc \notin {"upload", "extract"} =>
          /\ Len(questions') = Len(questions)
          /\ \A k \in 1..Len(questions) :
                 /\ questions'[k].question = questions[k].question
                 /\ questions'[k].options = questions[k].options
                 /\ questions'[k].answer = questions[k].answer
                 /\ \/ questions'[k].type = questions[k].type
                    \/ /\ questions[k].type = <<>>
                       /\ questions'[k].type \in {SingleChoice, MultiChoice, TrueFalse}
      ]_vars

\* C8 witness: write_to_excel has inferred the types; a record opened under no
\* section-type marker now has a type, and a record opened under a marker whose
\* label the inferencer would not return still has that label.
C8_Witness ==
    /\ pc = "rows"
    /\ \E k \in 1..Len(questions) :
           /\ AmbientBefore(KthStart(k, Len(doc))) = <<>>
           /\ questions[k].type # <<>>
    /\ \E k \in 1..Len(questions) :
           /\ questions[k].type = AmbientBefore(KthStart(k, Len(doc)))
           /\ questions[k].type # <<>>
           /\ questions[k].type # determine_question_type(questions[k])

\* C9: while the segmenter runs, there is one record per question-start line
\* read, its type is the label of the most recent section-type marker before that
\* start line (empty when none), and its options are the option lines read since
\* that start line, section-type markers in between notwithstanding.
C9_TypeIsAmbientAtStart ==
    pc \in {"extract", "extracted"} =>
        /\ Len(Records) = Cardinality(StartLines(i - 1))
        /\ \A k \in 1..Len(Records) :
               LET j == KthStart(k, i - 1)
                   e == IF k < Len(Records) THEN KthStart(k + 1, i - 1) ELSE i - 1
               IN  /\ Records[k].type = AmbientBefore(j)
                   /\ Records[k].options = OptionsBetween(j, e)

\* C9 witness: an option line was appended to the open question right after a
\* section-type marker that changed the ambient type.
C9_Witness ==
    /\ pc = "extract"
    /\ i >= 4
    /\ LineKind(doc[i - 3]) = "start"
    /\ LineKind(doc[i - 2]) = "marker"
    /\ LineKind(doc[i - 1]) = "option"
    /\ IsOpen(current_question)
    /\ Len(current_question.options) = 1
    /\ current_question.type # question_type

\* C10: in every data row the answer is in the column of the answer header (the
\* last header column), and the true-false labels are under no option-letter
\* header.
C10_AnswerUnderAnswerHeader ==
    \A k \in 1..Len(questions) :
        RowWritten(k) =>
            /\ \E x \in ws : /\ x.row = k + 1
                             /\ x.column = Len(headers)
                             /\ x.value = questions[k].answer
            /\ \A x \in ws :
                   ( /\ x.row = k + 1
                     /\ questions[k].type = TrueFalse
                     /\ x.value \in {LabelCorrect, LabelWrong}
                     /\ x.column \in 3..4
                     /\ x.column <= Len(headers) )
                   => ~IsOptionLetter(headers[x.column])

====
